---------------------------- MODULE Spec2Model ----------------------------
(* Model of the wildfire-hotspot map view (src/app/page.tsx, MapComponent)  *)
(* and of its KML proxy route (src/app/api/inpe-kml/route.ts).              *)
(*                                                                          *)
(* The browser side is a single-threaded event loop: every action below is  *)
(* one uninterrupted callback (effect body, timer callback, continuation of *)
(* an await, click handler).  The Leaflet map is modelled by the set of     *)
(* layers it holds, the layers control by its list of entries.              *)
EXTENDS Integers, Sequences, FiniteSets, TLC

(***************************************************************************)
(* Bounds of the exploration                                               *)
(***************************************************************************)
\* number of entries of inpeUrls that the explored runs reconcile
NumSources == 2
\* number of refresh periods that elapse while the effect is live
MaxPeriods == 1
\* number of refresh periods that elapse after the cleanup
MaxPeriodsAfter == 1
\* number of clicks of the user on the layers control
MaxClicks == 1

(***************************************************************************)
(* URLs.  A URL is the sequence of its lexical pieces: the reserved        *)
(* characters ":" and "/" and the runs of unreserved characters between.   *)
(***************************************************************************)
StatePath(uf) ==
  << "https", ":", "/", "/", "dataserver-coids.inpe.br", "/",
     "queimadas", "/", "queimadas", "/", "focos", "/", "kml", "/",
     "estados-48h", "/", uf >>

inpeUrls ==
  << StatePath("focos_frentes_MT.kml"), StatePath("focos_frentes_MS.kml"),
     StatePath("focos_frentes_BA.kml"), StatePath("focos_frentes_MA.kml") >>

Sources == 1..NumSources

AllowedPrefix == << "https", ":", "/", "/", "dataserver-coids.inpe.br", "/" >>

PROXY_PATH == "/api/inpe-kml"

\* String.prototype.startsWith
StartsWith(u, p) == Len(u) >= Len(p) /\ SubSeq(u, 1, Len(p)) = p

\* encodeURIComponent: reserved characters are percent-escaped
EncodePiece(t) == IF t = ":" THEN "%3A" ELSE IF t = "/" THEN "%2F" ELSE t
encodeURIComponent(u) == [i \in 1..Len(u) |-> EncodePiece(u[i])]

\* the decoding URLSearchParams applies to a query value
DecodePiece(t) == IF t = "%3A" THEN ":" ELSE IF t = "%2F" THEN "/" ELSE t
decodeQueryValue(q) == [i \in 1..Len(q) |-> DecodePiece(q[i])]

\* a request: the path it is sent to and its "url" query parameter
Request(path, present, value) ==
  [path |-> path, present |-> present, value |-> value]

\* searchParams.get('url'): null when the parameter is absent
searchParamsGet(req) ==
  IF req.present THEN [isNull |-> FALSE, str |-> decodeQueryValue(req.value)]
                 ELSE [isNull |-> TRUE, str |-> << >>]

(***************************************************************************)
(* Documents and responses                                                 *)
(***************************************************************************)
\* a row of the table in a placemark's description:
\* <tr><td>label</td><td>value</td></tr>
Row(label, value) == [label |-> label, value |-> value]

\* a feature as toGeoJSON.kml yields it: its properties name and description
\* (NoDescription when the placemark has none, else the rows of its table)
\* and the type of its geometry ("none" = placemark without geometry)
Description(rows) == [present |-> TRUE, rows |-> rows]
NoDescription == [present |-> FALSE, rows |-> << >>]
Feature(name, geometry, description) ==
  [name |-> name, geometry |-> geometry, description |-> description]

\* a KML document: well-formed or not, and its placemarks in document order
Doc(wf, feats) == [wellFormed |-> wf, features |-> feats]
NoDoc == Doc(FALSE, << >>)

Docs ==
  { Doc(FALSE, << >>),
    Doc(TRUE, << Feature("Frente", "LineString", NoDescription) >>),
    Doc(TRUE, << Feature("Foco 1", "Point", Description(<< Row("Estado", "MT") >>)),
                 Feature("", "none", NoDescription) >>) }

\* content types; NoContentType = the response has no content-type header
KML_MIME == "application/vnd.google-earth.kml+xml"
JSON_MIME == "application/json"
NoContentType == ""

\* what the upstream server does with a request of the proxy: the fetch or
\* the reading of the body throws, or a response with a status, a content
\* type and a body arrives
UpstreamWith(kind, status, doc, ctype) ==
  [kind |-> kind, status |-> status, doc |-> doc, ctype |-> ctype]
Upstream(kind, status, doc) == UpstreamWith(kind, status, doc, KML_MIME)
UpstreamOutcomes ==
  { Upstream("throw", 0, NoDoc), Upstream("status", 404, NoDoc) }
    \cup { Upstream("ok", 200, d) : d \in Docs }

\* the outcomes explored for requests of outside clients: also a success
\* status other than 200, a second failure status, and responses with
\* another or with no content type
SomeDoc == Doc(TRUE, << Feature("Foco 1", "Point", NoDescription) >>)
ProxyUpstreamOutcomes ==
  UpstreamOutcomes
    \cup { UpstreamWith("ok", 206, SomeDoc, KML_MIME),
           UpstreamWith("ok", 200, SomeDoc, "text/xml"),
           UpstreamWith("ok", 200, SomeDoc, NoContentType),
           UpstreamWith("status", 503, NoDoc, "text/html") }

\* what can happen to a fetch of the page: the hop to the route fails, or
\* the route is reached and its upstream fetch ends as up
FetchOutcomes ==
  { [net |-> FALSE, up |-> Upstream("throw", 0, NoDoc)] }
    \cup { [net |-> TRUE, up |-> u] : u \in UpstreamOutcomes }

\* an HTTP exchange seen by the caller: a rejected fetch or a response
\* (error = the message of a JSON error body, "" when the body is a document)
ResponseWith(kind, status, doc, upstream, ctype, error) ==
  [kind |-> kind, status |-> status, doc |-> doc, upstream |-> upstream,
   ctype |-> ctype, error |-> error]
Response(kind, status, doc, upstream) ==
  ResponseWith(kind, status, doc, upstream, NoContentType, "")
Pending == Response("pending", 0, NoDoc, << >>)
Rejected == Response("reject", 0, NoDoc, << >>)

\* NextResponse.json({ error }, { status })
JsonError(status, upstream, error) ==
  ResponseWith("response", status, NoDoc, upstream, JSON_MIME, error)

INVALID_URL == "URL invalida ou nao permitida."
UPSTREAM_FAILED == "Falha ao buscar dados do INPE: "
INTERNAL_ERROR == "Erro interno do servidor ao buscar dados do INPE."

\* route.ts GET: up is the outcome of the upstream fetch, used only when
\* the handler gets that far.  Field upstream is the address fetched
\* upstream (empty when no upstream request was issued).
\* variant that answers every upstream failure with the generic 500
GET_genericFailure(req, up) ==
  LET url == searchParamsGet(req) IN
  IF url.isNull \/ url.str = << >> \/ ~StartsWith(url.str, AllowedPrefix)
  THEN JsonError(400, << >>, INVALID_URL)
  ELSE IF up.kind = "throw" \/ up.kind = "status"
       THEN JsonError(500, url.str, INTERNAL_ERROR)
       ELSE ResponseWith("response", 200, up.doc, url.str,
                         IF up.ctype = NoContentType THEN KML_MIME ELSE up.ctype,
                         "")

GET(req, up) ==
  LET url == searchParamsGet(req) IN
  IF url.isNull \/ url.str = << >> \/ ~StartsWith(url.str, AllowedPrefix)
  THEN JsonError(400, << >>, INVALID_URL)
  ELSE IF up.kind = "throw"
       THEN JsonError(500, url.str, INTERNAL_ERROR)
       ELSE IF up.kind = "status"
            THEN JsonError(up.status, url.str, UPSTREAM_FAILED)
            ELSE ResponseWith("response", 200, up.doc, url.str,
                              IF up.ctype = NoContentType THEN KML_MIME ELSE up.ctype,
                              "")

\* Response.ok
Ok(resp) == resp.status >= 200 /\ resp.status <= 299

(***************************************************************************)
(* The fire-data pipeline: fetch -> parse -> point filter -> layer         *)
(***************************************************************************)
\* variant that fetches the source address itself
proxyApiUrl_direct(inpeUrl) == Request("https://dataserver-coids.inpe.br", FALSE, inpeUrl)

\* the request fetchAndProcessFireKML builds for a source address
proxyApiUrl(inpeUrl) == Request(PROXY_PATH, TRUE, encodeURIComponent(inpeUrl))

\* where a browser request ends up: the same-origin route answers it; a
\* request to any other origin is blocked by the browser (fetch rejects)
Route(req, up) == IF req.path = PROXY_PATH THEN GET(req, up) ELSE Rejected

\* results of processKMLText / fetchAndProcessFireKML
Layer(feats) == [kind |-> "layer", features |-> feats]
Null == [kind |-> "null", features |-> << >>]
Thrown == [kind |-> "throw", features |-> << >>]
NotYet == [kind |-> "pending", features |-> << >>]

\* variant that drops line features only: a placemark without geometry stays
pointFeatures_notLine(feats) ==
  SelectSeq(feats, LAMBDA f : f.geometry # "LineString")

\* geojson.features.filter(f => f.geometry?.type === 'Point')
pointFeatures(feats) == SelectSeq(feats, LAMBDA f : f.geometry = "Point")

processKMLText(doc) ==
  IF ~doc.wellFormed
  THEN Null
  ELSE IF Len(pointFeatures(doc.features)) = 0
       THEN Layer(<< >>)
       ELSE Layer(pointFeatures(doc.features))

\* variant without the try/catch: failures propagate to the caller
fetchAndProcessFireKML_noCatch(resp) ==
  IF resp.kind = "reject" THEN Thrown
  ELSE IF ~Ok(resp) THEN Thrown
  ELSE processKMLText(resp.doc)

fetchAndProcessFireKML(resp) ==
  IF resp.kind = "reject" THEN Null
  ELSE IF ~Ok(resp) THEN Null
  ELSE processKMLText(resp.doc)

(***************************************************************************)
(* Leaflet objects.  A layer is named by <<kind, generation, source>>.     *)
(***************************************************************************)
osmLayer == << "osm", 0, 0 >>
esriSatelliteLayer == << "esri", 0, 0 >>
newFarmLayer == << "farm", 0, 0 >>
fireLayerGroup(r) == << "group", r, 0 >>
geoJSON(r, s) == << "geo", r, s >>

HOTSPOT_NAME == "Focos de Incendio (INPE)"
FARM_NAME == "Propriedades Infiniti e Industrias INPASA"

Entry(layer, name, overlay) == [layer |-> layer, name |-> name, overlay |-> overlay]

\* Map.addLayer: no-op when present; a layer group brings its members
MapAddLayer(m, id, members) ==
  IF id \in m THEN m
  ELSE m \cup {id} \cup (IF id \in DOMAIN members THEN members[id] ELSE {})

\* Map.removeLayer: no-op when absent; a layer group takes its members along
MapRemoveLayer(m, id, members) ==
  IF id \notin m THEN m
  ELSE (m \ {id}) \ (IF id \in DOMAIN members THEN members[id] ELSE {})

\* variant that rebuilds the control's list from the new entry alone
ControlAddOverlay_reset(c, id, name) == << Entry(id, name, TRUE) >>

\* Control.Layers.addOverlay: appends an entry, whatever its name
ControlAddOverlay(c, id, name) == Append(c, Entry(id, name, TRUE))

\* Control.Layers.removeLayer: drops the entry registered for this layer
ControlRemoveLayer(c, id) == SelectSeq(c, LAMBDA e : e.layer # id)

RECURSIVE RemoveAllFromMap(_, _, _)
RemoveAllFromMap(m, ls, members) ==
  IF ls = << >> THEN m
  ELSE RemoveAllFromMap(MapRemoveLayer(m, Head(ls), members), Tail(ls), members)

RECURSIVE RemoveAllFromControl(_, _)
RemoveAllFromControl(c, ls) ==
  IF ls = << >> THEN c
  ELSE RemoveAllFromControl(ControlRemoveLayer(c, Head(ls)), Tail(ls))

(***************************************************************************)
(* State                                                                   *)
(***************************************************************************)
VARIABLES
  phase,            \* "unmounted", "mounted" (effect live), "torndown"
  mapRef,           \* TRUE when mapRef.current holds the map
  layersControlRef, \* TRUE when layersControlRef.current holds the control
  isMounted,        \* the effect's isMounted flag
  intervalId,       \* TRUE while the interval timer is armed
  mapLayers,        \* layers the map holds
  controlLayers,    \* entries of the layers control, in order
  geoLayers,        \* point features of every GeoJSON layer built so far
  groups,           \* members of every layer group built so far
  fireDataLayers,   \* React state: the layers of the latest generation
  closureLayers,    \* fireDataLayers as captured by the effect's updateFireData
  runs,             \* per run in flight, per source: NotYet or its result
  invocations,      \* calls of updateFireData so far
  periodsMounted,   \* refresh periods elapsed while the effect was live
  periodsAfter,     \* refresh periods elapsed after the cleanup
  farmLoad,         \* loadFarmKML: "idle", "fetching", "done"
  farmLayerRef,     \* TRUE when farmLayerRef.current holds a layer
  clicks,           \* clicks of the user so far
  escaped,          \* TRUE when a call of updateFireData rejected
  coreRequests,     \* every request the component has issued for fire data
  proxyLog,         \* exchange of the route with an outside client, if the
                    \* page has not mounted since
  calc              \* a pure function under study: its input and its output

vars ==
  << phase, mapRef, layersControlRef, isMounted, intervalId, mapLayers,
     controlLayers, geoLayers, groups, fireDataLayers, closureLayers, runs,
     invocations, periodsMounted, periodsAfter, farmLoad, farmLayerRef,
     clicks, escaped, coreRequests, proxyLog, calc >>

NoExchange ==
  [seen |-> FALSE, present |-> FALSE, raw |-> << >>,
   up |-> Upstream("throw", 0, NoDoc), resp |-> Pending]

NoCalc == [op |-> "none"]

\* the state of the page and of the route before the effect has run
PageInit ==
  /\ phase = "unmounted"
  /\ mapRef = FALSE
  /\ layersControlRef = FALSE
  /\ isMounted = FALSE
  /\ intervalId = FALSE
  /\ mapLayers = {}
  /\ controlLayers = << >>
  /\ geoLayers = << >>
  /\ groups = << >>
  /\ fireDataLayers = << >>
  /\ closureLayers = << >>
  /\ runs = << >>
  /\ invocations = 0
  /\ periodsMounted = 0
  /\ periodsAfter = 0
  /\ farmLoad = "idle"
  /\ farmLayerRef = FALSE
  /\ clicks = 0
  /\ escaped = FALSE
  /\ coreRequests = {}
  /\ proxyLog = NoExchange

Init == PageInit /\ calc = NoCalc

(***************************************************************************)
(* updateFireData, first half: guard, then one fetch per source            *)
(***************************************************************************)
\* the part of updateFireData that runs synchronously when it is called;
\* mapExists is mapRef.current at the time of the call
updateFireDataCall(mapExists) ==
  /\ invocations' = invocations + 1
  /\ IF ~mapExists
     THEN UNCHANGED << runs, coreRequests >>
     ELSE /\ runs' = runs @@ ((invocations + 1) :> [s \in Sources |-> NotYet])
          /\ coreRequests' =
               coreRequests \cup { proxyApiUrl(inpeUrls[s]) : s \in Sources }

(***************************************************************************)
(* updateFireData, second half: the continuation of Promise.all            *)
(***************************************************************************)
\* variant in which updateFireData reads the latest fireDataLayers
OldLayers_fresh == fireDataLayers

\* the fireDataLayers the running updateFireData sees
OldLayers == closureLayers

\* newLayers.filter(layer => layer !== null), as the sources kept, in order
RECURSIVE validSources(_, _)
validSources(newLayers, s) ==
  IF s > NumSources THEN << >>
  ELSE (IF newLayers[s].kind # "null" THEN << s >> ELSE << >>)
         \o validSources(newLayers, s + 1)

validNewLayers(r, newLayers) ==
  [i \in 1..Len(validSources(newLayers, 1)) |->
     geoJSON(r, validSources(newLayers, 1)[i])]

Range(q) == { q[i] : i \in 1..Len(q) }

\* run r resumes after await Promise.all with the results newLayers:
\* removal of the old layers, addition of the new group, state update
Reconcile(r, newLayers) ==
  LET g == fireLayerGroup(r)
      valid == validNewLayers(r, newLayers)
      members == groups @@ (g :> Range(valid))
      map1 == IF mapRef
              THEN RemoveAllFromMap(mapLayers, OldLayers, groups)
              ELSE mapLayers
      ctl1 == IF layersControlRef
              THEN RemoveAllFromControl(controlLayers, OldLayers)
              ELSE controlLayers
  IN /\ geoLayers' = geoLayers @@
           [id \in Range(valid) |-> newLayers[id[3]].features]
     /\ groups' = members
     /\ mapLayers' = IF mapRef THEN MapAddLayer(map1, g, members) ELSE map1
     /\ controlLayers' = IF layersControlRef
                         THEN ControlAddOverlay(ctl1, g, HOTSPOT_NAME)
                         ELSE ctl1
     /\ fireDataLayers' = valid

\* The fetch of source s of run r settles with outcome o: the hop to the
\* route fails (~o.net) or the route answers, with o.up the outcome of its
\* upstream fetch; fetchAndProcessFireKML runs to its end.  When this was the last
\* fetch of the run, Promise.all resolves and updateFireData resumes in the
\* same turn of the event loop; a rejection would end the run at once.
FetchSettle(r, s, o) ==
  /\ UNCHANGED calc
  /\ r \in DOMAIN runs
  /\ runs[r][s] = NotYet
  /\ LET result == fetchAndProcessFireKML(
                     IF o.net THEN Route(proxyApiUrl(inpeUrls[s]), o.up)
                              ELSE Rejected)
         settled == [runs[r] EXCEPT ![s] = result]
     IN IF result.kind = "throw"
        THEN /\ escaped' = TRUE
             /\ runs' = [k \in DOMAIN runs \ {r} |-> runs[k]]
             /\ UNCHANGED << mapLayers, controlLayers, geoLayers, groups,
                             fireDataLayers >>
        ELSE IF \E t \in Sources : settled[t] = NotYet
        THEN /\ runs' = [runs EXCEPT ![r] = settled]
             /\ UNCHANGED << mapLayers, controlLayers, geoLayers, groups,
                             fireDataLayers, escaped >>
        ELSE /\ runs' = [k \in DOMAIN runs \ {r} |-> runs[k]]
             /\ Reconcile(r, settled)
             /\ UNCHANGED escaped
  /\ UNCHANGED << phase, mapRef, layersControlRef, isMounted, intervalId,
                  closureLayers, invocations, periodsMounted, periodsAfter,
                  farmLoad, farmLayerRef, clicks, coreRequests, proxyLog >>

(***************************************************************************)
(* The effect: map construction, boundary load, first run, timer, cleanup  *)
(***************************************************************************)
\* the effect body at mount (mapContainerRef.current is set by then)
Mount ==
  /\ UNCHANGED calc
  /\ phase = "unmounted"
  /\ phase' = "mounted"
  /\ isMounted' = TRUE
  /\ IF ~mapRef
     THEN /\ mapRef' = TRUE
          /\ mapLayers' = MapAddLayer(mapLayers, osmLayer, groups)
          /\ layersControlRef' = TRUE
          /\ controlLayers' = << Entry(osmLayer, "OpenStreetMap", FALSE),
                                 Entry(esriSatelliteLayer, "Satelite (ESRI)", FALSE) >>
          /\ farmLoad' = "fetching"
          /\ closureLayers' = fireDataLayers
          /\ updateFireDataCall(TRUE)
          /\ intervalId' = TRUE
     ELSE UNCHANGED << mapRef, mapLayers, layersControlRef, controlLayers,
                       farmLoad, closureLayers, invocations, runs,
                       coreRequests, intervalId >>
  /\ proxyLog' = NoExchange
  /\ UNCHANGED << geoLayers, groups, fireDataLayers, periodsMounted,
                  periodsAfter, farmLayerRef, clicks, escaped >>

\* one refresh period elapses; an armed timer calls updateFireData
Tick ==
  /\ UNCHANGED calc
  /\ phase # "unmounted"
  /\ IF phase = "mounted"
     THEN /\ periodsMounted < MaxPeriods
          /\ periodsMounted' = periodsMounted + 1
          /\ UNCHANGED periodsAfter
     ELSE /\ periodsAfter < MaxPeriodsAfter
          /\ periodsAfter' = periodsAfter + 1
          /\ UNCHANGED periodsMounted
  /\ IF intervalId
     THEN updateFireDataCall(mapRef)
     ELSE UNCHANGED << invocations, runs, coreRequests >>
  /\ UNCHANGED << phase, mapRef, layersControlRef, isMounted, intervalId,
                  mapLayers, controlLayers, geoLayers, groups, fireDataLayers,
                  closureLayers, farmLoad, farmLayerRef, clicks, escaped,
                  proxyLog >>

\* variant of the cleanup that leaves the timer armed
Teardown_keepsTimer ==
  /\ UNCHANGED calc
  /\ phase = "mounted"
  /\ phase' = "torndown"
  /\ isMounted' = FALSE
  /\ UNCHANGED << intervalId, mapRef, layersControlRef, mapLayers,
                  controlLayers, geoLayers, groups, fireDataLayers,
                  closureLayers, runs, invocations, periodsMounted,
                  periodsAfter, farmLoad, farmLayerRef, clicks, escaped,
                  coreRequests, proxyLog >>

\* the effect's cleanup function
Teardown ==
  /\ UNCHANGED calc
  /\ phase = "mounted"
  /\ phase' = "torndown"
  /\ isMounted' = FALSE
  /\ intervalId' = FALSE
  /\ UNCHANGED << mapRef, layersControlRef, mapLayers, controlLayers,
                  geoLayers, groups, fireDataLayers, closureLayers, runs,
                  invocations, periodsMounted, periodsAfter, farmLoad,
                  farmLayerRef, clicks, escaped, coreRequests, proxyLog >>

(***************************************************************************)
(* loadFarmKML                                                             *)
(***************************************************************************)
\* the fetch of the boundary document settles; outcome "ok" is a parsed
\* document with features, every other outcome ends the loader early
FarmOutcomes == { "fail", "nofeatures", "ok" }

FarmSettle(outcome) ==
  /\ UNCHANGED calc
  /\ farmLoad = "fetching"
  /\ farmLoad' = "done"
  /\ IF outcome = "ok" /\ mapRef
     THEN /\ mapLayers' = MapAddLayer(mapLayers, newFarmLayer, groups)
          /\ controlLayers' =
               IF layersControlRef
               THEN ControlAddOverlay(controlLayers, newFarmLayer, FARM_NAME)
               ELSE controlLayers
          /\ farmLayerRef' = TRUE
     ELSE UNCHANGED << mapLayers, controlLayers, farmLayerRef >>
  /\ UNCHANGED << phase, mapRef, layersControlRef, isMounted, intervalId,
                  geoLayers, groups, fireDataLayers, closureLayers, runs,
                  invocations, periodsMounted, periodsAfter, clicks, escaped,
                  coreRequests, proxyLog >>

(***************************************************************************)
(* The user at the layers control                                          *)
(***************************************************************************)
\* click on the checkbox of overlay entry i
ToggleOverlay(i) ==
  /\ UNCHANGED calc
  /\ phase = "mounted"
  /\ clicks < MaxClicks
  /\ i \in 1..Len(controlLayers)
  /\ controlLayers[i].overlay
  /\ mapLayers' =
       IF controlLayers[i].layer \in mapLayers
       THEN MapRemoveLayer(mapLayers, controlLayers[i].layer, groups)
       ELSE MapAddLayer(mapLayers, controlLayers[i].layer, groups)
  /\ clicks' = clicks + 1
  /\ UNCHANGED << phase, mapRef, layersControlRef, isMounted, intervalId,
                  controlLayers, geoLayers, groups, fireDataLayers,
                  closureLayers, runs, invocations, periodsMounted,
                  periodsAfter, farmLoad, farmLayerRef, escaped, coreRequests,
                  proxyLog >>

\* click on the radio button of base entry i
SelectBase(i) ==
  /\ UNCHANGED calc
  /\ phase = "mounted"
  /\ clicks < MaxClicks
  /\ i \in 1..Len(controlLayers)
  /\ ~controlLayers[i].overlay
  /\ controlLayers[i].layer \notin mapLayers
  /\ mapLayers' =
       (mapLayers \ { controlLayers[j].layer :
                        j \in { k \in 1..Len(controlLayers) :
                                  ~controlLayers[k].overlay } })
         \cup { controlLayers[i].layer }
  /\ clicks' = clicks + 1
  /\ UNCHANGED << phase, mapRef, layersControlRef, isMounted, intervalId,
                  controlLayers, geoLayers, groups, fireDataLayers,
                  closureLayers, runs, invocations, periodsMounted,
                  periodsAfter, farmLoad, farmLayerRef, escaped, coreRequests,
                  proxyLog >>

(***************************************************************************)
(* The route, called by arbitrary clients                                  *)
(***************************************************************************)
HostUrl(scheme, host) == << scheme, ":", "/", "/", host, "/", "x.kml" >>

\* addresses an outside client may ask for
TestUrls ==
  { inpeUrls[s] : s \in Sources }
    \cup { << >>,
           AllowedPrefix,
           SubSeq(AllowedPrefix, 1, 5),
           HostUrl("http", "dataserver-coids.inpe.br"),
           HostUrl("https", "evil.example"),
           HostUrl("https", "dataserver-coids.inpe.br.evil.example"),
           << "https", ":", "/", "/", "evil.example", "/", "https", ":", "/",
              "/", "dataserver-coids.inpe.br", "/" >> }

\* what an outside client sends: no url parameter, or one of the addresses
ClientCalls ==
  { [present |-> FALSE, raw |-> << >>] }
    \cup { [present |-> TRUE, raw |-> u] : u \in TestUrls }

\* a client calls the route; the route is stateless, so its calls are
\* explored apart from the page
ProxyRequest(c, up) ==
  /\ UNCHANGED calc
  /\ phase = "unmounted"
  /\ proxyLog' =
       [seen |-> TRUE, present |-> c.present, raw |-> c.raw, up |-> up,
        resp |-> GET(Request(PROXY_PATH, c.present, encodeURIComponent(c.raw)),
                     up)]
  /\ UNCHANGED << phase, mapRef, layersControlRef, isMounted, intervalId,
                  mapLayers, controlLayers, geoLayers, groups, fireDataLayers,
                  closureLayers, runs, invocations, periodsMounted,
                  periodsAfter, farmLoad, farmLayerRef, clicks, escaped,
                  coreRequests >>

(***************************************************************************)
(* Specification                                                           *)
(***************************************************************************)
\* some fetch in flight settles
SomeFetchSettles ==
  \E r \in DOMAIN runs, s \in Sources, o \in FetchOutcomes : FetchSettle(r, s, o)

\* the fetch of the boundary document settles
FarmFetchSettles == \E o \in FarmOutcomes : FarmSettle(o)

\* the user clicks in the layers control
UserTogglesOverlay == \E i \in 1..Len(controlLayers) : ToggleOverlay(i)
UserSelectsBase == \E i \in 1..Len(controlLayers) : SelectBase(i)

\* an outside client calls the route
ClientCallsRoute ==
  \E c \in ClientCalls, up \in ProxyUpstreamOutcomes : ProxyRequest(c, up)

Next ==
  \/ Mount
  \/ Tick
  \/ Teardown
  \/ SomeFetchSettles
  \/ FarmFetchSettles
  \/ UserTogglesOverlay
  \/ UserSelectsBase
  \/ ClientCallsRoute

Spec == Init /\ [][Next]_vars

TypeOK ==
  /\ phase \in { "unmounted", "mounted", "torndown" }
  /\ mapRef \in BOOLEAN /\ layersControlRef \in BOOLEAN
  /\ invocations \in 0..(MaxPeriods + 1)

(***************************************************************************)
(* Vocabulary of the properties                                            *)
(***************************************************************************)
\* positions of the control's entries named for the hotspot overlay
HotspotEntries ==
  { i \in 1..Len(controlLayers) : controlLayers[i].name = HOTSPOT_NAME }

\* some reconciliation cycle has completed
SomeCycleCompleted == DOMAIN groups # {}

\* hotspot markers on the map: <<layer, position of the point feature>>
Markers ==
  UNION { { << id, i >> : i \in 1..Len(geoLayers[id]) } :
            id \in mapLayers \cap DOMAIN geoLayers }

MarkersOf(t) == { m \in Markers : m[1][3] = t }

\* a source succeeded in a cycle: the hop and the upstream fetch succeeded
\* and the document parsed
Succeeded(o) == o.net /\ o.up.kind = "ok" /\ o.up.doc.wellFormed

\* the layer a source is expected to contribute
Expected(o) ==
  IF Succeeded(o) THEN Layer(pointFeatures(o.up.doc.features)) ELSE Null

\* run r ends in this step
Ends(r) == r \in DOMAIN runs /\ r \notin DOMAIN runs'

(***************************************************************************)
(* C1: after every completed reconciliation cycle the layers control holds *)
(* exactly one entry named for the hotspot overlay.                        *)
(***************************************************************************)
C1_ExactlyOneHotspotEntry ==
  SomeCycleCompleted => Cardinality(HotspotEntries) = 1

(***************************************************************************)
(* C2: the hotspot markers on the map are only those of the most recently  *)
(* completed cycle (the generation recorded as current by that cycle).     *)
(***************************************************************************)
C2_OnlyCurrentGeneration ==
  \A m \in Markers : m[1] \in Range(fireDataLayers)

(***************************************************************************)
(* C3: fail-soft aggregation.  Every settled fetch yields the layer of the *)
(* source's point records when the source succeeded and nothing when it    *)
(* failed; when the last fetch of a run settles, the group added to the    *)
(* map holds exactly the layers of the succeeded sources; and no call of   *)
(* updateFireData rejects.                                                 *)
(***************************************************************************)
C3_Aggregate(r, v) ==
  LET g == fireLayerGroup(r)
      ok == { t \in Sources : v[t].kind = "layer" }
  IN /\ g \in DOMAIN groups'
     /\ groups'[g] = { geoJSON(r, t) : t \in ok }
     /\ \A t \in ok : geoLayers'[geoJSON(r, t)] = v[t].features
     /\ g \in mapLayers'
     /\ groups'[g] \subseteq mapLayers'

C3_FailSoftAggregation ==
  [][ \A r \in DOMAIN runs, s \in Sources, o \in FetchOutcomes :
        FetchSettle(r, s, o) =>
          LET v == [runs[r] EXCEPT ![s] = Expected(o)]
          IN /\ ~escaped'
             /\ IF \E t \in Sources : v[t] = NotYet
                THEN r \in DOMAIN runs' /\ runs'[r] = v
                ELSE Ends(r) /\ C3_Aggregate(r, v) ]_vars

\* a cycle over {A success with records, B failure} has completed
C3_Witness ==
  \E r \in 1..invocations :
    /\ fireLayerGroup(r) \in DOMAIN groups
    /\ groups[fireLayerGroup(r)] = { geoJSON(r, 1) }
    /\ geoLayers[geoJSON(r, 1)] # << >>
    /\ geoJSON(r, 1) \in mapLayers

(***************************************************************************)
(* C4: when every source of a cycle fails, the cycle ends without altering *)
(* what was displayed: the hotspot markers on the map, the layers on the   *)
(* map and the entries of the control present before are still there.      *)
(***************************************************************************)
IsPrefix(p, q) == Len(p) <= Len(q) /\ SubSeq(q, 1, Len(p)) = p

C5_EmptyRemovesFailureKeeps ==
  [][ \A r \in DOMAIN runs, s \in Sources, o \in FetchOutcomes :
        ( FetchSettle(r, s, o) /\ Ends(r) )
        => LET v == [runs[r] EXCEPT ![s] = Expected(o)]
           IN \A t \in Sources :
                /\ v[t] = Layer(<< >>) => MarkersOf(t)' = {}
                /\ v[t] = Null => MarkersOf(t)' = MarkersOf(t) ]_vars

C7_NoMutationAfterTeardown ==
  [][ ( phase = "torndown" /\ \E r \in DOMAIN runs : Ends(r) )
      => ( mapLayers' = mapLayers /\ controlLayers' = controlLayers ) ]_vars

(***************************************************************************)
(* C8: a reconciliation step leaves the base layers, the boundary layer    *)
(* and their entries in the control as they were; the hotspot entries of   *)
(* the control change only in a step in which a run ends; the boundary     *)
(* layer is registered at most once.                                       *)
(***************************************************************************)
StaticEntries(c) == SelectSeq(c, LAMBDA e : e.name # HOTSPOT_NAME)
HotspotSeq(c) == SelectSeq(c, LAMBDA e : e.name = HOTSPOT_NAME)
FarmEntries(c) == SelectSeq(c, LAMBDA e : e.layer = newFarmLayer)
StaticLayers == { osmLayer, esriSatelliteLayer, newFarmLayer }

\* a step of the reconciler after mount: a call or a settled fetch
ReconcilerStep ==
  phase # "unmounted" /\ (runs' # runs \/ invocations' # invocations)

C8_StaticLayersUntouched ==
  [][ /\ ReconcilerStep =>
           /\ StaticEntries(controlLayers') = StaticEntries(controlLayers)
           /\ mapLayers' \cap StaticLayers = mapLayers \cap StaticLayers
           /\ farmLayerRef' = farmLayerRef
      /\ HotspotSeq(controlLayers') # HotspotSeq(controlLayers) =>
           \E r \in DOMAIN runs : Ends(r)
      /\ Len(FarmEntries(controlLayers')) <= 1 ]_vars

\* a cycle has completed after the boundary layer was registered
C8_Witness ==
  /\ newFarmLayer \in mapLayers
  /\ \E i, j \in 1..Len(controlLayers) :
       /\ i < j
       /\ controlLayers[i].layer = newFarmLayer
       /\ controlLayers[j].name = HOTSPOT_NAME

(***************************************************************************)
(* C9: once the user has switched the hotspot overlay off, it is still off *)
(* after a later reconciliation cycle.                                     *)
(***************************************************************************)
HotspotOff ==
  /\ HotspotEntries # {}
  /\ \A i \in HotspotEntries : controlLayers[i].layer \notin mapLayers

C9_ToggleOffSurvivesRefresh ==
  [][ ( HotspotOff /\ \E r \in DOMAIN runs : Ends(r) ) => HotspotOff' ]_vars

(***************************************************************************)
(* C10: the route answers 400 and fetches nothing upstream when the url    *)
(* parameter is missing or does not start with the allow-listed prefix;    *)
(* every fetch of the page goes to the route and carries an address that   *)
(* starts with the allow-listed prefix.                                    *)
(***************************************************************************)
C10_AllowListAndRouting ==
  /\ ( proxyLog.seen
       /\ ~(proxyLog.present /\ StartsWith(proxyLog.raw, AllowedPrefix)) )
     => ( proxyLog.resp.status = 400 /\ proxyLog.resp.upstream = << >> )
  /\ \A q \in coreRequests :
       /\ q.path = PROXY_PATH
       /\ q.present
       /\ StartsWith(decodeQueryValue(q.value), AllowedPrefix)

\* the route has refused an address on another host
C10_Witness ==
  /\ proxyLog.seen
  /\ proxyLog.present
  /\ proxyLog.raw # << >>
  /\ ~StartsWith(proxyLog.raw, AllowedPrefix)
  /\ proxyLog.resp.status = 400

(***************************************************************************)
(* C11: for an allow-listed address the answer of the route is determined  *)
(* by the upstream outcome, exactly one of three cases.  As claimed, the   *)
(* success case relays the upstream status, body and content type          *)
(* unchanged.                                                              *)
(***************************************************************************)
AllowListed == proxyLog.present /\ StartsWith(proxyLog.raw, AllowedPrefix)

\* the three cases, told apart by the body of the answer
Relayed == proxyLog.resp.error = "" /\ proxyLog.resp.doc = proxyLog.up.doc
SameStatus ==
  /\ proxyLog.resp.error = UPSTREAM_FAILED
  /\ proxyLog.resp.status = proxyLog.up.status
Generic500 ==
  /\ proxyLog.resp.error = INTERNAL_ERROR
  /\ proxyLog.resp.status = 500

C11_RelaysVerbatim ==
  ( proxyLog.seen /\ AllowListed ) =>
    /\ proxyLog.up.kind = "ok" =>
         /\ Relayed
         /\ proxyLog.resp.status = proxyLog.up.status
         /\ proxyLog.resp.ctype = proxyLog.up.ctype
    /\ proxyLog.up.kind = "status" => SameStatus
    /\ proxyLog.up.kind = "throw" => Generic500
    /\ Cardinality({ k \in 1..3 : << Relayed, SameStatus, Generic500 >>[k] }) = 1

(* C11, as the route does it: on upstream success (any 2xx status) the     *)
(* answer has status 200, the upstream body, and the upstream content type *)
(* or, when upstream sent none, the KML content type; on an upstream       *)
(* non-success status the answer has that status; when the upstream fetch  *)
(* throws the answer is 500 with the generic message; exactly one of the   *)
(* three cases happens.                                                    *)
C11_UpstreamOutcomeAnswered ==
  ( proxyLog.seen /\ AllowListed ) =>
    /\ proxyLog.up.kind = "ok" =>
         /\ Relayed
         /\ proxyLog.resp.status = 200
         /\ proxyLog.resp.ctype =
              IF proxyLog.up.ctype = NoContentType THEN KML_MIME
              ELSE proxyLog.up.ctype
    /\ proxyLog.up.kind = "status" => SameStatus
    /\ proxyLog.up.kind = "throw" => Generic500
    /\ Cardinality({ k \in 1..3 : << Relayed, SameStatus, Generic500 >>[k] }) = 1

\* an upstream 206 has been answered with 200
C11_Witness ==
  /\ proxyLog.seen
  /\ AllowListed
  /\ proxyLog.up.kind = "ok"
  /\ proxyLog.up.status = 206
  /\ proxyLog.resp.status = 200

(***************************************************************************)
(* C12: no overlapping runs: at most one run of updateFireData is between  *)
(* its start and its swap at any time, and the timer starts no run while a *)
(* prior run has fetches pending.                                          *)
(***************************************************************************)
C12_NoOverlappingRuns ==
  Cardinality(DOMAIN runs) <= 1

(***************************************************************************)
(* The point filter on its own: a feature collection is drawn, filtered,   *)
(* and the result is filtered again.                                       *)
(***************************************************************************)
\* length of the longest feature collection explored
MaxFeatures == 3

pageVars ==
  << phase, mapRef, layersControlRef, isMounted, intervalId, mapLayers,
     controlLayers, geoLayers, groups, fireDataLayers, closureLayers, runs,
     invocations, periodsMounted, periodsAfter, farmLoad, farmLayerRef,
     clicks, escaped, coreRequests, proxyLog >>

\* the sequences over S of length at most n
SeqsUpTo(S, n) == UNION { [1..k -> S] : k \in 0..n }

FilterFeatures ==
  { Feature(n, g, NoDescription) :
      n \in { "Foco 1", "Foco 2" }, g \in { "Point", "LineString", "none" } }

FilterInit ==
  /\ PageInit
  /\ calc \in { [op |-> "filter", stage |-> 0, in |-> f, out |-> << >>,
                 again |-> << >>] : f \in SeqsUpTo(FilterFeatures, MaxFeatures) }

\* const pointFeatures = geojson.features.filter(...)
ApplyFilter ==
  /\ calc.op = "filter" /\ calc.stage = 0
  /\ calc' = [calc EXCEPT !.stage = 1, !.out = pointFeatures(calc.in)]
  /\ UNCHANGED pageVars

\* the same filter applied to its own result
FilterAgain ==
  /\ calc.op = "filter" /\ calc.stage = 1
  /\ calc' = [calc EXCEPT !.stage = 2, !.again = pointFeatures(calc.out)]
  /\ UNCHANGED pageVars

FilterNext == ApplyFilter \/ FilterAgain

FilterSpec == FilterInit /\ [][FilterNext]_vars

(***************************************************************************)
(* C13: the point filter keeps exactly the features whose geometry type is *)
(* Point, in their original order, dropping every feature with another or  *)
(* with no geometry; filtering its result again returns an equal           *)
(* collection.                                                             *)
(***************************************************************************)
\* positions of the Point features of a collection
PointPositions(feats) == { i \in 1..Len(feats) : feats[i].geometry = "Point" }

\* the k-th smallest element of a set of positions
KthOf(P, k) == CHOOSE i \in P : Cardinality({ j \in P : j <= i }) = k

C13_PointFilter ==
  /\ ( calc.op = "filter" /\ calc.stage >= 1 ) =>
       LET P == PointPositions(calc.in) IN
       /\ Len(calc.out) = Cardinality(P)
       /\ \A k \in 1..Len(calc.out) : calc.out[k] = calc.in[KthOf(P, k)]
  /\ ( calc.op = "filter" /\ calc.stage = 2 ) => calc.again = calc.out

\* a collection of two points around a feature without geometry has been
\* filtered twice
C13_Witness ==
  /\ calc.op = "filter" /\ calc.stage = 2
  /\ Len(calc.in) = 3 /\ Len(calc.out) = 2
  /\ calc.in[1].geometry = "Point" /\ calc.in[2].geometry = "none"
  /\ calc.in[1].name # calc.in[3].name

(***************************************************************************)
(* The annotator (onEachFeature) on its own.  A popup text is the sequence *)
(* of its pieces: markup, name, field labels and captured values.          *)
(***************************************************************************)
\* number of rows of the longest description explored
MaxRows == 4

DEFAULT_NAME == "Foco de Incendio"
\* a cell whose content is markup, as in <td><i>MT</i></td>
MARKUP_VALUE == "<i>MT</i>"
\* String.prototype.match returned null
NoMatch == "null"

\* ([^<]+)</td> : the cell holds at least one character and no "<"
Captures(value) == value # "" /\ value # MARKUP_VALUE

\* rows of desc the pattern /<td>label<\/td><td>([^<]+)<\/td>/ matches at
MatchingRows(desc, label) ==
  { i \in 1..Len(desc) : desc[i].label = label /\ Captures(desc[i].value) }

\* variant that uses the last matching row
descMatch_last(desc, label) ==
  LET hits == MatchingRows(desc, label) IN
  IF hits = {} THEN NoMatch
  ELSE desc[CHOOSE i \in hits : \A j \in hits : j <= i].value

\* desc.match(pattern)?.[1] : the capture of the leftmost match
descMatch(desc, label) ==
  LET hits == MatchingRows(desc, label) IN
  IF hits = {} THEN NoMatch
  ELSE desc[CHOOSE i \in hits : \A j \in hits : i <= j].value

\* if (m?.[1]) popupContent += `<br/>${prefix}${m[1]}`
AppendField(popup, prefix, m) ==
  IF m = NoMatch THEN popup ELSE popup \o << "<br/>", prefix, m >>

\* falsy feature.properties.description: absent or the empty text
HasDescription(f) == f.description.present /\ f.description.rows # << >>

popupContent(f) ==
  LET label == << "<b>", IF f.name = "" THEN DEFAULT_NAME ELSE f.name, "</b>" >>
  IN
  IF ~HasDescription(f) THEN label
  ELSE LET desc == f.description.rows IN
       AppendField(
         AppendField(
           AppendField(
             AppendField(label, "Data/Hora: ", descMatch(desc, "Data Hora UTC")),
             "Satelite: ", descMatch(desc, "Satelite")),
           "Municipio: ", descMatch(desc, "Municipio")),
         "Estado: ", descMatch(desc, "Estado"))

AnnotRows ==
  { Row("Data Hora UTC", "2024-08-01 12:00"), Row("Data Hora UTC", "2024-08-02 13:00"),
    Row("Satelite", "AQUA_M-T"), Row("Municipio", "Sorriso"),
    Row("Estado", MARKUP_VALUE), Row("Estado", "MT"), Row("Bioma", "Cerrado") }

AnnotFeatures ==
  { Feature(n, "Point", d) :
      n \in { "", "Foco 1" },
      d \in { NoDescription }
               \cup { Description(rows) : rows \in SeqsUpTo(AnnotRows, MaxRows) } }

AnnotInit ==
  /\ PageInit
  /\ calc \in { [op |-> "annotate", stage |-> 0, in |-> f, out |-> << >>] :
                 f \in AnnotFeatures }

\* onEachFeature builds the popup text of a feature
Annotate ==
  /\ calc.op = "annotate" /\ calc.stage = 0
  /\ calc' = [calc EXCEPT !.stage = 1, !.out = popupContent(calc.in)]
  /\ UNCHANGED pageVars

\* layer.bindPopup(popupContent)
BindPopup ==
  /\ calc.op = "annotate" /\ calc.stage = 1
  /\ calc' = [calc EXCEPT !.stage = 2]
  /\ UNCHANGED pageVars

AnnotNext == Annotate \/ BindPopup

AnnotSpec == AnnotInit /\ [][AnnotNext]_vars

(***************************************************************************)
(* C14: the label of every feature starts with the feature's name or, when *)
(* it has none, with the default name; each of the four fields is present  *)
(* in the label exactly when some row of the description matches its       *)
(* pattern, whatever the other fields do, and then carries the value of    *)
(* the first such row; a feature without description text gets the name    *)
(* part alone.                                                             *)
(***************************************************************************)
\* the four fields: the label of the row and the prefix in the popup
AnnotFields ==
  { << "Data Hora UTC", "Data/Hora: " >>, << "Satelite", "Satelite: " >>,
    << "Municipio", "Municipio: " >>, << "Estado", "Estado: " >> }

\* positions of the popup at which a prefix stands
PrefixAt(popup, prefix) == { i \in 1..Len(popup) : popup[i] = prefix }

C14_Annotation ==
  ( calc.op = "annotate" /\ calc.stage >= 1 ) =>
    LET f == calc.in
        out == calc.out
        desc == f.description.rows
    IN
    /\ Len(out) >= 3
    /\ SubSeq(out, 1, 3) =
         << "<b>", IF f.name = "" THEN DEFAULT_NAME ELSE f.name, "</b>" >>
    /\ \A fld \in AnnotFields :
         LET rows == { i \in 1..Len(desc) :
                         /\ desc[i].label = fld[1]
                         /\ desc[i].value \notin { "", MARKUP_VALUE } }
             at == PrefixAt(out, fld[2])
         IN
         IF rows = {}
         THEN at = {}
         ELSE /\ Cardinality(at) = 1
              /\ \A i \in at :
                   /\ i < Len(out)
                   /\ \E r \in rows :
                        /\ \A q \in rows : r <= q
                        /\ out[i + 1] = desc[r].value
    /\ desc = << >> => Len(out) = 3

\* an unnamed feature whose description has two observation-time rows, a
\* state row with markup and a clean one, and no satellite row
C14_Witness ==
  /\ calc.op = "annotate" /\ calc.stage = 2
  /\ calc.in.name = ""
  /\ calc.in.description =
       Description(<< Row("Data Hora UTC", "2024-08-02 13:00"),
                      Row("Estado", MARKUP_VALUE),
                      Row("Data Hora UTC", "2024-08-01 12:00"),
                      Row("Estado", "MT") >>)
  /\ calc.out = << "<b>", DEFAULT_NAME, "</b>",
                   "<br/>", "Data/Hora: ", "2024-08-02 13:00",
                   "<br/>", "Estado: ", "MT" >>

(***************************************************************************)
(* The style function of the boundary layer on its own.  A style reference *)
(* is the sequence of its lexical pieces, so that "#PolyStyle0070" holds   *)
(* the pieces of "PolyStyle007".                                           *)
(***************************************************************************)
\* number of features of the largest boundary layer explored
MaxStyled == 3

\* String.prototype.includes
Includes(s, t) ==
  \E i \in 1..(Len(s) - Len(t) + 1) : SubSeq(s, i, i + Len(t) - 1) = t

PolyStyle007 == << "PolyStyle", "007" >>
PolyStyle0012 == << "PolyStyle", "0012" >>
PolyStyle00159 == << "PolyStyle", "00159" >>

\* feature?.properties?.styleUrl: absent, or a string
StyleUrl(str) == [present |-> TRUE, str |-> str]
NoStyleUrl == [present |-> FALSE, str |-> << >>]

PathOptions(color, weight, opacity, fillColor, fillOpacity) ==
  [color |-> color, weight |-> weight, opacity |-> opacity,
   fillColor |-> fillColor, fillOpacity |-> fillOpacity]

\* let style = { ... }
DefaultStyle == PathOptions("#fcb4d4", 3, "0.8", "#ffffff", "0.2")

\* the if / else-if chain on styleUrl, assigning into style
applyStyleUrl(style, url) ==
  IF ~url.present \/ url.str = << >> THEN style
  ELSE IF Includes(url.str, PolyStyle007)
       THEN [style EXCEPT !.color = "#ffffff", !.fillColor = "#fcb4d4",
                          !.fillOpacity = "0.1", !.weight = 2]
       ELSE IF Includes(url.str, PolyStyle0012)
            THEN [style EXCEPT !.color = "#fcb4d4", !.fillColor = "#fcb4d4",
                               !.fillOpacity = "0.1", !.weight = 2]
            ELSE IF Includes(url.str, PolyStyle00159)
                 THEN [style EXCEPT !.color = "#f0f0f0", !.fillColor = "#f0f0f0",
                                    !.fillOpacity = "0.07", !.weight = 3]
                 ELSE style

\* variant with one style object shared by all features of the layer
RECURSIVE styleFrom(_, _)
styleFrom(style, urls) ==
  IF urls = << >> THEN << >>
  ELSE << applyStyleUrl(style, Head(urls)) >>
         \o styleFrom(applyStyleUrl(style, Head(urls)), Tail(urls))
styleLayer_shared(urls) == styleFrom(DefaultStyle, urls)

\* L.geoJSON calls style(feature) for each feature, in order; every call
\* starts from a fresh default object
styleLayer(urls) == [i \in 1..Len(urls) |-> applyStyleUrl(DefaultStyle, urls[i])]

StyleUrls ==
  { NoStyleUrl,
    StyleUrl(<< >>),
    StyleUrl(<< "#", "PolyStyle", "007" >>),
    StyleUrl(<< "#", "PolyStyle", "0012" >>),
    StyleUrl(<< "#", "PolyStyle", "00159" >>),
    StyleUrl(<< "#", "PolyStyle", "007", "0" >>),
    StyleUrl(<< "#", "LineStyle", "007" >>),
    StyleUrl(<< "#", "PolyStyle", "0012", "-", "PolyStyle", "007" >>) }

StyleInit ==
  /\ PageInit
  /\ calc \in { [op |-> "style", stage |-> 0, in |-> u, out |-> << >>] :
                 u \in SeqsUpTo(StyleUrls, MaxStyled) }

\* L.geoJSON(geojson, { style }) resolves the style of every feature
ResolveStyles ==
  /\ calc.op = "style" /\ calc.stage = 0
  /\ calc' = [calc EXCEPT !.stage = 1, !.out = styleLayer(calc.in)]
  /\ UNCHANGED pageVars

\* the styled layer is put on the map
ShowStyled ==
  /\ calc.op = "style" /\ calc.stage = 1
  /\ calc' = [calc EXCEPT !.stage = 2]
  /\ UNCHANGED pageVars

StyleNext == ResolveStyles \/ ShowStyled

StyleSpec == StyleInit /\ [][StyleNext]_vars

(***************************************************************************)
(* C19: the style of a feature is a function of its style reference alone: *)
(* a reference containing PolyStyle007, else PolyStyle0012, else           *)
(* PolyStyle00159 gets that token's fixed stroke color, width, opacity,    *)
(* fill color and fill opacity, a missing or unrecognized reference gets   *)
(* the default tuple, and neither the other features of the layer nor      *)
(* their order change it.                                                  *)
(***************************************************************************)
\* <<stroke color, width, opacity, fill color, fill opacity>> of a style
TupleOf(st) == << st.color, st.weight, st.opacity, st.fillColor, st.fillOpacity >>

\* the tuple the claim assigns to a reference
ClaimedTuple(url) ==
  LET has(t) == url.present /\ Includes(url.str, t) IN
  IF has(PolyStyle007) THEN << "#ffffff", 2, "0.8", "#fcb4d4", "0.1" >>
  ELSE IF has(PolyStyle0012) THEN << "#fcb4d4", 2, "0.8", "#fcb4d4", "0.1" >>
  ELSE IF has(PolyStyle00159) THEN << "#f0f0f0", 3, "0.8", "#f0f0f0", "0.07" >>
  ELSE << "#fcb4d4", 3, "0.8", "#ffffff", "0.2" >>

C19_StyleResolution ==
  ( calc.op = "style" /\ calc.stage >= 1 ) =>
    /\ Len(calc.out) = Len(calc.in)
    /\ \A i \in 1..Len(calc.in) : TupleOf(calc.out[i]) = ClaimedTuple(calc.in[i])
    /\ \A i, j \in 1..Len(calc.in) :
         calc.in[i] = calc.in[j] => calc.out[i] = calc.out[j]

\* a layer whose second feature has no reference and follows a PolyStyle007
\* feature, and whose third reference holds two tokens
C19_Witness ==
  /\ calc.op = "style" /\ calc.stage = 2
  /\ Len(calc.in) = 3
  /\ calc.in[1] = StyleUrl(<< "#", "PolyStyle", "007" >>)
  /\ calc.in[2] = NoStyleUrl
  /\ calc.in[3] = StyleUrl(<< "#", "PolyStyle", "0012", "-", "PolyStyle", "007" >>)
  /\ calc.out[2] = DefaultStyle
  /\ calc.out[3] = calc.out[1]

(***************************************************************************)
(* The swap in two steps.  updateFireData is followed statement by         *)
(* statement through its continuation: the removal loop is one step, the   *)
(* addition with the registration and the state update the next.  A run    *)
(* whose fetches have all settled and that is still in flight stands       *)
(* between the two.  Whether another callback may run there is decided by  *)
(* where the function suspends.                                            *)
(***************************************************************************)
\* variant with an await between the removal loop and the addition
Suspends_afterRemoval(position) == position \in { "fetching", "removed" }

\* the positions at which updateFireData gives the event loop back
Suspends(position) == position = "fetching"

\* the runs between the removal and the addition
MidSwap == { r \in DOMAIN runs : \A t \in Sources : runs[r][t] # NotYet }

\* the event loop can start another callback
LoopFree == MidSwap = {} \/ Suspends("removed")

\* the removal loop over the old layers
ReconcileRemove ==
  /\ mapLayers' = IF mapRef
                  THEN RemoveAllFromMap(mapLayers, OldLayers, groups)
                  ELSE mapLayers
  /\ controlLayers' = IF layersControlRef
                      THEN RemoveAllFromControl(controlLayers, OldLayers)
                      ELSE controlLayers

\* the new group is built, added, registered, and recorded as current
ReconcileAdd(r, newLayers) ==
  LET g == fireLayerGroup(r)
      valid == validNewLayers(r, newLayers)
      members == groups @@ (g :> Range(valid))
  IN /\ geoLayers' = geoLayers @@
           [id \in Range(valid) |-> newLayers[id[3]].features]
     /\ groups' = members
     /\ mapLayers' = IF mapRef THEN MapAddLayer(mapLayers, g, members)
                     ELSE mapLayers
     /\ controlLayers' = IF layersControlRef
                         THEN ControlAddOverlay(controlLayers, g, HOTSPOT_NAME)
                         ELSE controlLayers
     /\ fireDataLayers' = valid

\* a fetch settles; when it was the last of its run, the run resumes and
\* executes the removal loop
FetchSettleThenRemove(r, s, o) ==
  /\ LoopFree
  /\ r \in DOMAIN runs
  /\ runs[r][s] = NotYet
  /\ LET result == fetchAndProcessFireKML(
                     IF o.net THEN Route(proxyApiUrl(inpeUrls[s]), o.up)
                              ELSE Rejected)
         settled == [runs[r] EXCEPT ![s] = result]
     IN IF result.kind = "throw"
        THEN /\ escaped' = TRUE
             /\ runs' = [k \in DOMAIN runs \ {r} |-> runs[k]]
             /\ UNCHANGED << mapLayers, controlLayers >>
        ELSE /\ runs' = [runs EXCEPT ![r] = settled]
             /\ UNCHANGED escaped
             /\ IF \E t \in Sources : settled[t] = NotYet
                THEN UNCHANGED << mapLayers, controlLayers >>
                ELSE ReconcileRemove
  /\ UNCHANGED << phase, mapRef, layersControlRef, isMounted, intervalId,
                  geoLayers, groups, fireDataLayers, closureLayers,
                  invocations, periodsMounted, periodsAfter, farmLoad,
                  farmLayerRef, clicks, coreRequests, proxyLog, calc >>

\* the run goes on from the removal to the addition and returns
SwapAdd(r) ==
  /\ r \in MidSwap
  /\ ReconcileAdd(r, runs[r])
  /\ runs' = [k \in DOMAIN runs \ {r} |-> runs[k]]
  /\ UNCHANGED << phase, mapRef, layersControlRef, isMounted, intervalId,
                  closureLayers, invocations, periodsMounted, periodsAfter,
                  farmLoad, farmLayerRef, clicks, escaped, coreRequests,
                  proxyLog, calc >>

\* the callbacks of the page, started when the event loop is free
MountStarts == LoopFree /\ Mount
TickStarts == LoopFree /\ Tick
TeardownStarts == LoopFree /\ Teardown
FarmContinues == LoopFree /\ FarmFetchSettles
ToggleStarts == LoopFree /\ UserTogglesOverlay
SelectStarts == LoopFree /\ UserSelectsBase
SomeFetchSettlesThenRemoves ==
  \E r \in DOMAIN runs, s \in Sources, o \in FetchOutcomes :
    FetchSettleThenRemove(r, s, o)
SomeSwapAdds == \E r \in MidSwap : SwapAdd(r)

SwapNext ==
  \/ MountStarts
  \/ TickStarts
  \/ TeardownStarts
  \/ FarmContinues
  \/ ToggleStarts
  \/ SelectStarts
  \/ ClientCallsRoute
  \/ SomeFetchSettlesThenRemoves
  \/ SomeSwapAdds

SwapSpec == Init /\ [][SwapNext]_vars

(***************************************************************************)
(* C16: the swap is one uninterrupted step: from the removal of the        *)
(* previous generation to the addition and registration of the new one no  *)
(* other work runs (no swap of another run, no timer tick, no continuation *)
(* of the boundary loader, no teardown, no click), so the only step taken  *)
(* from a state between the two is that run's own addition.                *)
(***************************************************************************)
C16_SwapUninterrupted ==
  /\ [][ MidSwap # {} => \E r \in MidSwap : SwapAdd(r) ]_vars
  /\ [](Cardinality(MidSwap) <= 1)

\* a run stands between removal and addition while another run has a fetch
\* pending, the timer is armed and the boundary document is being fetched
C16_Witness ==
  /\ MidSwap # {}
  /\ \E q \in DOMAIN runs : \E t \in Sources : runs[q][t] = NotYet
  /\ intervalId
  /\ farmLoad = "fetching"

(***************************************************************************)
(* C15: the order of the steps of one cycle: a call issues one fetch per   *)
(* source; a failed fetch cancels no other fetch of its run; the swap      *)
(* starts only after every fetch of the run has settled, and the group it  *)
(* adds is the whole new generation; and the previous generation has been  *)
(* removed when the new one is added.                                      *)
(***************************************************************************)
\* hotspot layers (groups and their GeoJSON layers) on a map
HotspotLayers(m) == { id \in m : id[1] \in { "group", "geo" } }

C15_OneFetchPerSource ==
  [][ \A r \in DOMAIN runs' \ DOMAIN runs :
        /\ runs'[r] = [s \in Sources |-> NotYet]
        /\ \A s \in Sources : proxyApiUrl(inpeUrls[s]) \in coreRequests' ]_vars

C15_FailureCancelsNothing ==
  [][ \A r \in DOMAIN runs, s \in Sources, o \in FetchOutcomes :
        ( FetchSettleThenRemove(r, s, o) /\ ~Succeeded(o) ) =>
          /\ r \in DOMAIN runs'
          /\ \A t \in Sources \ {s} : runs'[r][t] = runs[r][t] ]_vars

C15_SwapAfterAllSettled ==
  [][ \A id \in HotspotLayers(mapLayers') \ HotspotLayers(mapLayers) :
        clicks' = clicks =>
          LET r == id[2] IN
          /\ r \in MidSwap
          /\ SwapAdd(r)
          /\ groups'[fireLayerGroup(r)] =
               { geoJSON(r, t) : t \in { u \in Sources : runs[r][u].kind = "layer" } }
          /\ groups'[fireLayerGroup(r)] \cup { fireLayerGroup(r) }
               \subseteq mapLayers' ]_vars

C15_RemovalBeforeAddition ==
  [](MidSwap # {} => HotspotLayers(mapLayers) = {})

\* C15: the four parts together
C15_CycleOrdering ==
  /\ C15_OneFetchPerSource
  /\ C15_FailureCancelsNothing
  /\ C15_SwapAfterAllSettled
  /\ C15_RemovalBeforeAddition

(***************************************************************************)
(* Progress.  Every fetch the page has issued settles in the end (the      *)
(* browser resolves or rejects it); nothing else is assumed to happen.     *)
(***************************************************************************)
LiveSpec == Spec /\ WF_vars(SomeFetchSettles)

(***************************************************************************)
(* C17: every started run returns once its fetches have settled, having    *)
(* swapped in its generation, whatever the outcomes of its sources and of  *)
(* the runs before it; no rejection escapes a run; and a tick of the armed *)
(* timer starts a run whatever the earlier outcomes were.                  *)
(***************************************************************************)
RunIds == 1..(MaxPeriods + 1)

C17_RunsReturnToIdle ==
  /\ \A r \in RunIds :
       (r \in DOMAIN runs) ~>
         (r \notin DOMAIN runs /\ fireLayerGroup(r) \in DOMAIN groups)
  /\ [](~escaped)
  /\ [][ ( phase = "mounted" /\ periodsMounted' = periodsMounted + 1 ) =>
           /\ (invocations + 1) \in DOMAIN runs'
           /\ \A s \in Sources : runs'[invocations + 1][s] = NotYet ]_vars

\* a run in which every source failed has returned, and so has a later run
\* with a source that succeeded
C17_Witness ==
  /\ fireLayerGroup(1) \in DOMAIN groups
  /\ groups[fireLayerGroup(1)] = {}
  /\ fireLayerGroup(2) \in DOMAIN groups
  /\ groups[fireLayerGroup(2)] # {}
  /\ runs = << >>

(***************************************************************************)
(* C18: runs are idempotent: after two runs that obtained the same         *)
(* per-source results (one after the other or overlapping), and with no    *)
(* click of the user, the hotspot markers on the map and the hotspot       *)
(* entries of the control are what a single such run leaves: one entry,    *)
(* one group, one marker per point record.                                 *)
(***************************************************************************)
\* run r has completed its swap
Completed(r) == fireLayerGroup(r) \in DOMAIN groups

\* what run r obtained from source s
ResultOf(r, s) ==
  IF geoJSON(r, s) \in groups[fireLayerGroup(r)]
  THEN Layer(geoLayers[geoJSON(r, s)])
  ELSE Null

C18_RunsIdempotent ==
  ( /\ Completed(1) /\ Completed(2)
    /\ runs = << >>
    /\ clicks = 0
    /\ \A s \in Sources : ResultOf(1, s) = ResultOf(2, s) )
  => /\ Cardinality(HotspotEntries) = 1
     /\ Cardinality({ id \in mapLayers : id[1] = "group" }) = 1
     /\ \A s \in Sources :
          Cardinality(MarkersOf(s)) = Len(ResultOf(1, s).features)

(***************************************************************************)
(* Re-runs of the effect.  React runs the cleanup and then the effect body *)
(* again when center or zoom change, and once right after the first mount  *)
(* in development mode (where the cleanup has run before); refs survive    *)
(* both.  mapRef.current is still set then (the cleanup leaves the map in  *)
(* place), so the body skips its whole if-block.                           *)
(***************************************************************************)
EffectRerun ==
  /\ phase \in { "mounted", "torndown" }
  /\ mapRef
  /\ phase' = "mounted"
  /\ isMounted' = TRUE
  /\ intervalId' = FALSE
  /\ UNCHANGED << mapRef, layersControlRef, mapLayers, controlLayers,
                  geoLayers, groups, fireDataLayers, closureLayers, runs,
                  invocations, periodsMounted, periodsAfter, farmLoad,
                  farmLayerRef, clicks, escaped, coreRequests, proxyLog, calc >>

RemountNext ==
  \/ Mount
  \/ Tick
  \/ Teardown
  \/ EffectRerun
  \/ SomeFetchSettles
  \/ FarmFetchSettles
  \/ UserTogglesOverlay
  \/ UserSelectsBase
  \/ ClientCallsRoute

RemountSpec == Init /\ [][RemountNext]_vars

(***************************************************************************)
(* C20: while the effect is live and the map exists, the periodic refresh  *)
(* timer is armed; in particular it is armed again after the effect has    *)
(* been cleaned up and re-run.                                             *)
(***************************************************************************)
C20_TimerWhileMounted ==
  ( phase = "mounted" /\ mapRef ) => intervalId

=============================================================================
